---------------------------- MODULE Spec2Model ----------------------------
(***************************************************************************)
(* Model of kindle_to_obsidian.py (KindleToObsidian).                      *)
(*                                                                         *)
(* Texts are sequences of one-character strings, so that the regular       *)
(* expressions and the str methods of the source are modelled by what they *)
(* do to the characters.                                                   *)
(*                                                                         *)
(*   SpecRecover : extract_text_from_pdf                                   *)
(*   SpecParse   : parse_highlights_and_notes                              *)
(*   SpecNote    : create_obsidian_note                                    *)
(*   SpecSync    : run / search_kindle_emails / process_email              *)
(***************************************************************************)
EXTENDS Naturals, Sequences, FiniteSets

VARIABLES
    \* extract_text_from_pdf
    rpc,          \* position in extract_text_from_pdf
    rtext,        \* local `text`
    ocr_text,     \* local `ocr_text`
    npages,       \* the number of pages of the document
    rpage,        \* number of pages the running loop has consumed
    direct,       \* history: `text` as it stood at the test of line 182
    directFailed, \* history: the handler of line 179 ran
    ocrCalled,    \* history: line 185 was reached
    \* parse_highlights_and_notes
    ppc,          \* position in parse_highlights_and_notes
    text,         \* argument `text`
    stripped,     \* `text` after line 206
    chunks,       \* `chunks` of line 207
    ci,           \* loop variable `i` of line 209
    notes,        \* `notes`
    \* create_obsidian_note
    files,        \* the output folder: file name -> content
    written,      \* history: the last call, its argument and what it returned
    \* run / process_email
    spc,          \* position in run
    runs,         \* history: the number of runs started
    mailbox,      \* the ids the Gmail query returns
    processed_file, \* contents of processed_kindle_emails.txt
    unprocessed,  \* `messages` of run, what is left of it
    fetched,      \* history: id -> number of get_email_content calls
    vault,        \* history: id -> number of notes written for it
    completed     \* history: ids for which process_email returned

recVars   == <<rpc, rtext, ocr_text, npages, rpage, direct, directFailed, ocrCalled>>
parseVars == <<ppc, text, stripped, chunks, ci, notes>>
noteVars  == <<files, written>>
syncVars  == <<spc, runs, mailbox, processed_file, unprocessed, fetched, vault, completed>>
vars      == <<recVars, parseVars, noteVars, syncVars>>

----------------------------------------------------------------------------
(* Characters and the str / re primitives the source uses.                 *)

Lowers == <<"a","b","c","d","e","f","g","h","i","j","k","l","m",
            "n","o","p","q","r","s","t","u","v","w","x","y","z">>
Uppers == <<"A","B","C","D","E","F","G","H","I","J","K","L","M",
            "N","O","P","Q","R","S","T","U","V","W","X","Y","Z">>
DigitChars == <<"0","1","2","3","4","5","6","7","8","9">>

Range(f) == {f[k] : k \in DOMAIN f}

\* \s of re, and the characters str.strip() removes
IsSpace(c) == c \in {" ", "\n", "\t"}
\* \d
IsDigit(c) == c \in Range(DigitChars)
\* \w
IsWord(c)  == c \in Range(Lowers) \cup Range(Uppers) \cup Range(DigitChars) \cup {"_"}
\* [.!?:;,]
IsPunct(c) == c \in {".", "!", "?", ":", ";", ","}

\* The character classes of the patterns: \s, \d, \n, '.' (anything but a
\* line break) and ' '.
InClass(c, cls) ==
    CASE cls = "space"   -> IsSpace(c)
      [] cls = "digit"   -> IsDigit(c)
      [] cls = "newline" -> c = "\n"
      [] cls = "dot"     -> c # "\n"
      [] cls = "blank"   -> c = " "

\* str.lower() on one character (re.IGNORECASE compares case-folded)
Lower(c) ==
    IF c \in Range(Uppers)
    THEN Lowers[CHOOSE k \in DOMAIN Uppers : Uppers[k] = c]
    ELSE c

Max(S) == CHOOSE m \in S : \A n \in S : n <= m
Min(S) == CHOOSE m \in S : \A n \in S : m <= n

\* The last index of the longest run of characters of class cls that starts at
\* i (i - 1 when s[i] is no such character): a greedy X* or X+ from i.
RunEnd(s, i, cls) ==
    LET stop == {j \in i..Len(s) : ~InClass(s[j], cls)}
    IN  IF stop = {} THEN Len(s) ELSE Min(stop) - 1

\* Where the pattern cls{least,} first matches at or after i (0: nowhere)
NextRun(s, i, cls, least) ==
    LET at == {j \in i..(Len(s) + 1 - least) :
                  \A k \in 0..(least - 1) : InClass(s[j + k], cls)}
    IN  IF at = {} THEN 0 ELSE Min(at)

\* s[i:] starts with the literal p
PrefixAt(s, i, p) ==
    /\ i + Len(p) - 1 <= Len(s)
    /\ \A k \in 1..Len(p) : s[i + k - 1] = p[k]

\* the same under re.IGNORECASE
PrefixAtNoCase(s, i, p) ==
    /\ i + Len(p) - 1 <= Len(s)
    /\ \A k \in 1..Len(p) : Lower(s[i + k - 1]) = Lower(p[k])

\* str.strip()
Strip(s) ==
    LET keep == {k \in 1..Len(s) : ~IsSpace(s[k])}
        last == CHOOSE k \in keep : \A j \in (k + 1)..Len(s) : IsSpace(s[j])
    IN  IF keep = {} THEN <<>> ELSE SubSeq(s, Min(keep), last)

\* s[:n]
Take(s, n) == IF Len(s) > n THEN SubSeq(s, 1, n) ELSE s

\* re.split on runs of at least `least` line breaks, of s[i:]
RECURSIVE SplitRunsFrom(_, _, _)
SplitRunsFrom(s, i, least) ==
    LET m == NextRun(s, i, "newline", least)
    IN  IF m = 0 THEN <<SubSeq(s, i, Len(s))>>
        ELSE <<SubSeq(s, i, m - 1)>>
             \o SplitRunsFrom(s, RunEnd(s, m, "newline") + 1, least)

\* str.split('\n') of s[i:]
RECURSIVE SplitLinesFrom(_, _)
SplitLinesFrom(s, i) ==
    LET nl == {j \in i..Len(s) : s[j] = "\n"}
    IN  IF nl = {} THEN <<SubSeq(s, i, Len(s))>>
        ELSE <<SubSeq(s, i, Min(nl) - 1)>> \o SplitLinesFrom(s, Min(nl) + 1)

SplitLines(s) == SplitLinesFrom(s, 1)

\* ''.join(seq)
RECURSIVE Concat(_)
Concat(seq) == IF seq = <<>> THEN <<>> ELSE Head(seq) \o Concat(Tail(seq))

\* re.sub(cls{least,}, repl, s[i:])
RECURSIVE CollapseFrom(_, _, _, _, _)
CollapseFrom(s, i, cls, least, repl) ==
    LET m == NextRun(s, i, cls, least)
    IN  IF m = 0 THEN SubSeq(s, i, Len(s))
        ELSE SubSeq(s, i, m - 1) \o repl
             \o CollapseFrom(s, RunEnd(s, m, cls) + 1, cls, least, repl)

\* str(n) for n >= 0
RECURSIVE Str(_)
Str(n) == IF n < 10 THEN <<DigitChars[n + 1]>>
          ELSE Append(Str(n \div 10), DigitChars[(n % 10) + 1])

----------------------------------------------------------------------------
(* parse_highlights_and_notes, lines 202-253                               *)

PagePrefix == <<"P","a","g","e"," ">>

\* One match of r'Page \d+\s*\n' starting exactly at i: the index of its last
\* character, 0 when there is none.  \d+ takes the whole run of digits (with
\* fewer the next character is a digit and \s*\n fails); \s* is greedy and
\* backtracks to the last line break of the run of whitespace.
PageMatchEnd(s, i) ==
    IF ~PrefixAt(s, i, PagePrefix) THEN 0
    ELSE LET d   == RunEnd(s, i + Len(PagePrefix), "digit")
             w   == RunEnd(s, d + 1, "space")
             nls == {k \in (d + 1)..w : s[k] = "\n"}
         IN  IF d < i + Len(PagePrefix) \/ nls = {} THEN 0 ELSE Max(nls)

\* line 206: re.sub(r'Page \d+\s*\n', '', s[i:]): the text up to the next
\* match, then what follows the match
RECURSIVE StripPagesFrom(_, _)
StripPagesFrom(s, i) ==
    LET at == {j \in i..Len(s) : PageMatchEnd(s, j) > 0}
    IN  IF at = {} THEN SubSeq(s, i, Len(s))
        ELSE SubSeq(s, i, Min(at) - 1)
             \o StripPagesFrom(s, PageMatchEnd(s, Min(at)) + 1)

StripPages(s) == StripPagesFrom(s, 1)

SplitChunks_3(s) == SplitRunsFrom(s, 1, 3)

\* line 207: re.split(r'\n{2,}', text)
SplitChunks(s) == SplitRunsFrom(s, 1, 2)

TitlePrefix == <<"T","i","t","l","e",":">>

\* line 222: the longest default title
TitleMax == 50

\* line 211: a chunk is kept when it is longer than this
MinChunk == 10

\* re.match(r'^Title:\s*(.+?)(?:\n|$)', chunk, re.IGNORECASE), lines 215 and
\* 218.  \s* is greedy and also runs over line breaks; it gives characters
\* back until '.' has one to take.  The lazy .+? then has to run to the end of
\* its line, where \n or $ matches.  The result: whether the pattern matches,
\* the first and last index of group 1, and the last index of the match.
TitleMatch(chunk) ==
    IF ~PrefixAtNoCase(chunk, 1, TitlePrefix)
    THEN [ok |-> FALSE, from |-> 0, to |-> 0, end |-> 0]
    ELSE LET first == Len(TitlePrefix) + 1
             w     == RunEnd(chunk, first, "space")
             ps    == {p \in first..(w + 1) : p <= Len(chunk) /\ chunk[p] # "\n"}
         IN  IF ps = {}
             THEN [ok |-> FALSE, from |-> 0, to |-> 0, end |-> 0]
             ELSE LET p   == Max(ps)
                      eol == RunEnd(chunk, p, "dot")
                  IN  [ok |-> TRUE, from |-> p, to |-> eol,
                       end |-> IF eol < Len(chunk) THEN eol + 1 ELSE eol]

\* lines 212-218: the explicit title (empty when there is none; line 220
\* treats None and '' alike) and the content left
TitleDirective(chunk) ==
    LET m == TitleMatch(chunk)
    IN  IF m.ok
        THEN [title   |-> Strip(SubSeq(chunk, m.from, m.to)),
              content |-> Strip(SubSeq(chunk, m.end + 1, Len(chunk)))]
        ELSE [title |-> <<>>, content |-> chunk]

\* lines 220-222: the title taken from the first line of the content
DefaultTitle(content) == Take(SplitLines(content)[1], TitleMax)

\* lines 227-239: one line of the body as it is appended to cleaned_lines
CleanLine(lines, j) ==
    LET line == Strip(lines[j])
    IN  IF line = <<>> THEN <<>>
        ELSE IF ~IsPunct(line[Len(line)]) /\ j # Len(lines)
             THEN Append(line, " ")
             ELSE line

\* line 241: ''.join(cleaned_lines)
JoinCleaned(cleaned) == Concat(cleaned)

\* lines 224-244: the body cleanup
CleanBody(content) ==
    LET lines   == SplitLines(content)
        cleaned == [j \in 1..Len(lines) |-> CleanLine(lines, j)]
        joined  == JoinCleaned(cleaned)
        spaces  == CollapseFrom(joined, 1, "blank", 2, <<" ">>)
        breaks  == CollapseFrom(spaces, 1, "newline", 3, <<"\n", "\n">>)
    IN  Strip(breaks)

KeepChunk_ge(chunk) == Len(Strip(chunk)) >= MinChunk

\* lines 210-211: the length filter
KeepChunk(chunk) == Len(Strip(chunk)) > MinChunk

\* line 250: the index of the record of chunk i (0-based i of enumerate),
\* `kept` being the records appended so far
NoteIndex(i, kept) == i + 1

\* lines 212-251: the record of one kept chunk
MakeNote(chunk, i, kept, source) ==
    LET c == Strip(chunk)
        d == TitleDirective(c)
    IN  [title   |-> IF d.title # <<>> THEN d.title ELSE DefaultTitle(d.content),
         content |-> CleanBody(d.content),
         source  |-> source,
         index   |-> NoteIndex(i, kept)]

\* lines 209-251, from chunk i on (0-based), `kept` being `notes` so far
RECURSIVE ParseFrom(_, _, _, _)
ParseFrom(cs, i, kept, source) ==
    IF i >= Len(cs) THEN kept
    ELSE ParseFrom(cs, i + 1,
                   IF KeepChunk(cs[i + 1])
                   THEN Append(kept, MakeNote(cs[i + 1], i, kept, source))
                   ELSE kept,
                   source)

\* parse_highlights_and_notes(text, source_title)
ParseNotes(t, source) == ParseFrom(SplitChunks(StripPages(t)), 0, <<>>, source)


----------------------------------------------------------------------------
(* The values the variables of an operation hold while a specification     *)
(* exercises another operation.                                            *)

RecIdle ==
    /\ rpc = "idle" /\ rtext = <<>> /\ ocr_text = <<>> /\ npages = 0 /\ rpage = 0
    /\ direct = <<>> /\ directFailed = FALSE /\ ocrCalled = FALSE

ParseIdle ==
    /\ ppc = "idle" /\ text = <<>> /\ stripped = <<>> /\ chunks = <<>>
    /\ ci = 0 /\ notes = <<>>

NoCall == [title |-> <<>>, index |-> 0, ok |-> FALSE, path |-> <<>>]

NoteIdle == files = <<>> /\ written = NoCall

SyncIdle ==
    /\ spc = "off" /\ runs = 0 /\ mailbox = {} /\ processed_file = <<>> /\ unprocessed = <<>>
    /\ fetched = <<>> /\ vault = <<>> /\ completed = {}

----------------------------------------------------------------------------
(* SpecParse: parse_highlights_and_notes on a bounded set of texts         *)

\* the most lines an input text has
MaxLines == 3

Subject == "Your Kindle Notebook"

InputLines ==
    { <<"H","e","l","l","o"," ","t","h","e","r","e">>,
      <<"H","e","l","l","o"," ","t","h","e","r">>,
      <<"S","o","m","e"," ","c","o","n","t","e","n","t",".">>,
      <<"#","f","i","c","t","i","o","n">>,
      <<"T","i","t","l","e",":">>,
      <<"T","i","t","l","e",":"," ","M","y"," ","I","d","e","a">>,
      <<"P","a","g","e"," ","1">>,
      <<"s","e","e"," ","P","a","g","e"," ","1","2">> }

InputSeps == { <<"\n">>, <<"\n","\n">>, <<"\n","\n","\n">> }

\* the texts of exactly n lines
RECURSIVE TextsOf(_)
TextsOf(n) ==
    IF n = 1 THEN InputLines
    ELSE {t \o sep \o l : t \in TextsOf(n - 1), sep \in InputSeps, l \in InputLines}

\* the texts of at most n lines
TextsUpTo(n) == UNION {TextsOf(k) : k \in 1..n}

ParseInit ==
    /\ ppc = "start" /\ text \in TextsUpTo(MaxLines) /\ stripped = <<>> /\ chunks = <<>>
    /\ ci = 0 /\ notes = <<>>
    /\ RecIdle /\ NoteIdle /\ SyncIdle

\* lines 204-207
StripAndSplit ==
    /\ ppc = "start"
    /\ stripped' = StripPages(text)
    /\ chunks' = SplitChunks(stripped')
    /\ ppc' = "loop"
    /\ UNCHANGED <<text, ci, notes>>
    /\ UNCHANGED <<recVars, noteVars, syncVars>>

\* lines 209-251, an iteration that appends a record
KeepNote ==
    /\ ppc = "loop" /\ ci < Len(chunks)
    /\ KeepChunk(chunks[ci + 1])
    /\ notes' = Append(notes, MakeNote(chunks[ci + 1], ci, notes, Subject))
    /\ ci' = ci + 1
    /\ UNCHANGED <<ppc, text, stripped, chunks>>
    /\ UNCHANGED <<recVars, noteVars, syncVars>>

\* lines 209-211, an iteration whose chunk is too short
DropChunk ==
    /\ ppc = "loop" /\ ci < Len(chunks)
    /\ ~KeepChunk(chunks[ci + 1])
    /\ ci' = ci + 1
    /\ UNCHANGED <<ppc, text, stripped, chunks, notes>>
    /\ UNCHANGED <<recVars, noteVars, syncVars>>

\* line 253
ParseReturn ==
    /\ ppc = "loop" /\ ci = Len(chunks)
    /\ ppc' = "done"
    /\ UNCHANGED <<text, stripped, chunks, ci, notes>>
    /\ UNCHANGED <<recVars, noteVars, syncVars>>

ParseNext ==
    \/ StripAndSplit
    \/ KeepNote
    \/ DropChunk
    \/ ParseReturn

SpecParse == ParseInit /\ [][ParseNext]_vars


----------------------------------------------------------------------------
(* SpecRecover: extract_text_from_pdf, lines 163-200.  What PyPDF2,        *)
(* pdf2image and pytesseract answer for a page is an input of the step     *)
(* that calls them: a text, or an exception.                               *)

\* the most pages a document has
MaxPages == 2

\* line 182: with fewer characters than this, OCR is attempted
MinDirect == 100

Rep(c, n) == [k \in 1..n |-> c]

\* what extract_text / image_to_string may return for one page
PageTexts ==
    { <<>>,
      <<" ", "\n">>,
      <<" ">> \o Rep("d", 3) \o <<" ", " ">>,
      Rep("c", 38),
      Rep("b", 39),
      Rep("a", 60) }

RecoverInit ==
    /\ rpc = "open" /\ rtext = <<>> /\ ocr_text = <<>>
    /\ npages \in 0..MaxPages /\ rpage = 0
    /\ direct = <<>> /\ directFailed = FALSE /\ ocrCalled = FALSE
    /\ ParseIdle /\ NoteIdle /\ SyncIdle

\* lines 175-176 and 190-191: a page's text is appended when it is not blank
AddPage(acc, page_text) ==
    IF Strip(page_text) # <<>> THEN acc \o page_text \o <<"\n">> ELSE acc

\* lines 170-171: the reader opens the document
OpenReader ==
    /\ rpc = "open"
    /\ rpc' = "direct"
    /\ UNCHANGED <<rtext, ocr_text, npages, rpage, direct, directFailed, ocrCalled>>
    /\ UNCHANGED <<parseVars, noteVars, syncVars>>

\* lines 171, 179-180: PdfReader raises, before any page
OpenReaderFails ==
    /\ rpc = "open"
    /\ rpc' = "test" /\ directFailed' = TRUE
    /\ UNCHANGED <<rtext, ocr_text, npages, rpage, direct, ocrCalled>>
    /\ UNCHANGED <<parseVars, noteVars, syncVars>>

\* lines 173-176: one page of the direct extraction
ExtractPage ==
    /\ rpc = "direct" /\ rpage < npages
    /\ \E page_text \in PageTexts : rtext' = AddPage(rtext, page_text)
    /\ rpage' = rpage + 1
    /\ UNCHANGED <<rpc, ocr_text, npages, direct, directFailed, ocrCalled>>
    /\ UNCHANGED <<parseVars, noteVars, syncVars>>

\* lines 174, 179-180: extract_text raises on a page; `text` keeps the pages
\* read so far
ExtractPageFails ==
    /\ rpc = "direct" /\ rpage < npages
    /\ rpc' = "test" /\ directFailed' = TRUE
    /\ UNCHANGED <<rtext, ocr_text, npages, rpage, direct, ocrCalled>>
    /\ UNCHANGED <<parseVars, noteVars, syncVars>>

\* line 178: the loop over the pages ends
ExtractDone ==
    /\ rpc = "direct" /\ rpage = npages
    /\ rpc' = "test"
    /\ UNCHANGED <<rtext, ocr_text, npages, rpage, direct, directFailed, ocrCalled>>
    /\ UNCHANGED <<parseVars, noteVars, syncVars>>

\* line 182
NeedsOcr(t) == Len(Strip(t)) < MinDirect

\* line 182, enough text: return it
DirectSuffices ==
    /\ rpc = "test" /\ ~NeedsOcr(rtext)
    /\ direct' = rtext
    /\ rpc' = "done"
    /\ UNCHANGED <<rtext, ocr_text, npages, rpage, directFailed, ocrCalled>>
    /\ UNCHANGED <<parseVars, noteVars, syncVars>>

\* lines 182-186: too little text, the pages are rasterized
ConvertPages ==
    /\ rpc = "test" /\ NeedsOcr(rtext)
    /\ direct' = rtext
    /\ ocrCalled' = TRUE
    /\ ocr_text' = <<>> /\ rpage' = 0
    /\ rpc' = "ocr"
    /\ UNCHANGED <<rtext, npages, directFailed>>
    /\ UNCHANGED <<parseVars, noteVars, syncVars>>

\* lines 185, 197-198: convert_from_bytes raises
ConvertFails ==
    /\ rpc = "test" /\ NeedsOcr(rtext)
    /\ direct' = rtext
    /\ ocrCalled' = TRUE
    /\ rpc' = "done"
    /\ UNCHANGED <<rtext, ocr_text, npages, rpage, directFailed>>
    /\ UNCHANGED <<parseVars, noteVars, syncVars>>

\* lines 188-192: one page of the recognition
OcrPage ==
    /\ rpc = "ocr" /\ rpage < npages
    /\ \E page_text \in PageTexts : ocr_text' = AddPage(ocr_text, page_text)
    /\ rpage' = rpage + 1
    /\ UNCHANGED <<rpc, rtext, npages, direct, directFailed, ocrCalled>>
    /\ UNCHANGED <<parseVars, noteVars, syncVars>>

\* lines 189, 197-198: image_to_string raises on a page; line 194 is skipped,
\* so `text` stays what it was and the pages recognized so far are dropped
OcrPageFails ==
    /\ rpc = "ocr" /\ rpage < npages
    /\ rpc' = "done"
    /\ UNCHANGED <<rtext, ocr_text, npages, rpage, direct, directFailed, ocrCalled>>
    /\ UNCHANGED <<parseVars, noteVars, syncVars>>

\* lines 194-196, then 200
KeepLonger ==
    /\ rpc = "ocr" /\ rpage = npages
    /\ rtext' = IF Len(ocr_text) > Len(rtext) THEN ocr_text ELSE rtext
    /\ rpc' = "done"
    /\ UNCHANGED <<ocr_text, npages, rpage, direct, directFailed, ocrCalled>>
    /\ UNCHANGED <<parseVars, noteVars, syncVars>>

RecoverNext ==
    \/ OpenReader
    \/ OpenReaderFails
    \/ ExtractPage
    \/ ExtractPageFails
    \/ ExtractDone
    \/ DirectSuffices
    \/ ConvertPages
    \/ ConvertFails
    \/ OcrPage
    \/ OcrPageFails
    \/ KeepLonger

SpecRecover == RecoverInit /\ [][RecoverNext]_vars

\* line 200: the value extract_text_from_pdf returns
Returned == rtext


----------------------------------------------------------------------------
(* SpecNote: create_obsidian_note, lines 255-277.  The output folder is a  *)
(* function from file names to contents.                                   *)

\* the most files the folder holds
MaxFiles == 4

Ext == <<".", "m", "d">>

KeepTitleChar(c) == IsWord(c) \/ IsSpace(c) \/ c = "-"

\* lines 260-261: re.sub(r'[^\w\s-]', '', title), re.sub(r'\s+', ' ', ...),
\* strip()
Sanitize(title) ==
    LET kept == SelectSeq(title, KeepTitleChar)
    IN  Strip(CollapseFrom(kept, 1, "space", 1, <<" ">>))

\* lines 260-264: title_clean
TitleClean(note) ==
    IF Sanitize(note.title) # <<>> THEN Sanitize(note.title)
    ELSE <<"N","o","t","e"," ">> \o Str(note.index)

\* lines 269-273: the loop, entered with `counter`
RECURSIVE TryCounter(_, _, _)
TryCounter(base, counter, fs) ==
    LET name == base \o <<" ">> \o Str(counter) \o Ext
    IN  IF name \in DOMAIN fs THEN TryCounter(base, counter + 1, fs) ELSE name

FreeName_overwrite(base, fs) == base \o Ext

\* lines 266-273: the file name chosen for title_clean `base`
FreeName(base, fs) ==
    IF (base \o Ext) \in DOMAIN fs THEN TryCounter(base, 1, fs) ELSE base \o Ext

\* line 276: filepath.write_text(content)
WriteFile(fs, name, content) ==
    [f \in DOMAIN fs \cup {name} |-> IF f = name THEN content ELSE fs[f]]

NoteTitles ==
    { <<"H","e","l","l","o">>,
      <<"H","e","l","l","o","!">>,
      <<"H","e","l","l","o"," ","1">>,
      <<"?","!">> }

NoteBodies == { <<"n","e","w">>, <<"n","e","x","t">> }

NoteInputs ==
    [title : NoteTitles, content : NoteBodies, source : {Subject}, index : 1..2]

\* files the folder may hold before the first call
OldNames ==
    { <<"H","e","l","l","o">> \o Ext,
      <<"H","e","l","l","o"," ","1">> \o Ext,
      <<"N","o","t","e"," ","1">> \o Ext }

NoteInit ==
    /\ \E old \in SUBSET OldNames : files = [f \in old |-> <<"o","l","d">>]
    /\ written = NoCall
    /\ RecIdle /\ ParseIdle /\ SyncIdle

\* create_obsidian_note(note_data) returns the path it wrote
CreateNote ==
    /\ Cardinality(DOMAIN files) < MaxFiles
    /\ \E note \in NoteInputs :
         LET name == FreeName(TitleClean(note), files)
         IN  /\ files' = WriteFile(files, name, note.content)
             /\ written' = [title |-> note.title, index |-> note.index,
                             ok |-> TRUE, path |-> name]
    /\ UNCHANGED <<recVars, parseVars, syncVars>>

\* line 276: write_text raises (the folder is read-only, the disk is full)
CreateNoteFails ==
    /\ \E note \in NoteInputs :
         written' = [title |-> note.title, index |-> note.index,
                     ok |-> FALSE, path |-> <<>>]
    /\ UNCHANGED files
    /\ UNCHANGED <<recVars, parseVars, syncVars>>

NoteNext ==
    \/ CreateNote
    \/ CreateNoteFails

SpecNote == NoteInit /\ [][NoteNext]_vars


----------------------------------------------------------------------------
(* SpecSync: run, search_kindle_emails, process_email and the file of      *)
(* processed ids, lines 76-100 and 279-358.                                *)

\* the most runs of the program
MaxRuns == 3

EmailIds == { <<"m","1">>, <<"m","2">>, <<"m","3">> }

\* What get_email_content finds in each message (lines 128-161) and the text
\* its document holds: m1 has neither attachment nor link, m2 an attached PDF
\* of two notes, m3 a link to a text of one note.
EmailKind(id) ==
    CASE id = <<"m","1">> -> "none"
      [] id = <<"m","2">> -> "pdf"
      [] id = <<"m","3">> -> "link"

EmailText(id) ==
    CASE id = <<"m","1">> -> <<>>
      [] id = <<"m","2">> ->
           <<"H","e","l","l","o"," ","t","h","e","r","e","\n","\n",
             "S","o","m","e"," ","c","o","n","t","e","n","t",".">>
      [] id = <<"m","3">> ->
           <<"H","e","l","l","o"," ","t","h","e","r","e">>

\* lines 76-80: get_processed_emails; the file does not exist until the
\* first id is written
GetProcessed(file) ==
    IF file = <<>> THEN {} ELSE Range(SplitLines(Strip(file)))

MarkProcessed_skip(file, id) == file

\* lines 82-85: mark_email_processed appends the id and a line break
MarkProcessed(file, id) == file \o id \o <<"\n">>

\* lines 96-97: the messages the query returns, those already processed left
\* out; the ids in the order Gmail lists them
RECURSIVE ListOf(_)
ListOf(S) ==
    IF S = {} THEN <<>>
    ELSE LET m == CHOOSE x \in S : TRUE IN <<m>> \o ListOf(S \ {m})

Unprocessed(box, file) == ListOf({id \in box : id \notin GetProcessed(file)})

\* lines 328-334: the notes are written in order; those whose number is in
\* `failing` raise in create_obsidian_note and are skipped
RECURSIVE WriteNotes(_, _, _, _)
WriteNotes(fs, ns, k, failing) ==
    IF k > Len(ns) THEN fs
    ELSE WriteNotes(IF k \in failing THEN fs
                    ELSE WriteFile(fs, FreeName(TitleClean(ns[k]), fs), ns[k].content),
                    ns, k + 1, failing)

SyncInit ==
    /\ spc = "idle" /\ runs = 0
    /\ mailbox \in SUBSET EmailIds
    /\ processed_file = <<>> /\ unprocessed = <<>>
    /\ fetched = [id \in EmailIds |-> 0]
    /\ vault = [id \in EmailIds |-> 0]
    /\ completed = {}
    /\ NoteIdle
    /\ RecIdle /\ ParseIdle

\* a Kindle export arrives in the mailbox
MailArrives ==
    /\ \E id \in EmailIds \ mailbox : mailbox' = mailbox \cup {id}
    /\ UNCHANGED <<spc, runs, processed_file, unprocessed, fetched, vault, completed>>
    /\ UNCHANGED <<recVars, parseVars, noteVars>>

\* lines 339-344: run starts and searches the mailbox
StartRun ==
    /\ spc = "idle" /\ runs < MaxRuns
    /\ runs' = runs + 1
    /\ unprocessed' = Unprocessed(mailbox, processed_file)
    /\ spc' = "loop"
    /\ UNCHANGED <<mailbox, processed_file, fetched, vault, completed>>
    /\ UNCHANGED <<recVars, parseVars, noteVars>>

\* lines 284, 353-356: get_email_content raises (or, for a message without
\* notes, mark_email_processed does); run reports it and goes on, the id is
\* not written
FetchFails ==
    /\ spc = "loop" /\ unprocessed # <<>>
    /\ fetched' = [fetched EXCEPT ![Head(unprocessed)] = @ + 1]
    /\ unprocessed' = Tail(unprocessed)
    /\ UNCHANGED <<spc, runs, mailbox, processed_file, vault, completed>>
    /\ UNCHANGED <<recVars, parseVars, noteVars>>

\* lines 284-289: neither attachment nor link
ProcessNothing ==
    /\ spc = "loop" /\ unprocessed # <<>>
    /\ LET id == Head(unprocessed)
       IN  /\ EmailKind(id) = "none"
           /\ fetched' = [fetched EXCEPT ![id] = @ + 1]
           /\ processed_file' = MarkProcessed(processed_file, id)
           /\ completed' = completed \cup {id}
    /\ unprocessed' = Tail(unprocessed)
    /\ UNCHANGED <<spc, runs, mailbox, vault>>
    /\ UNCHANGED <<recVars, parseVars, noteVars>>

\* lines 291-321: the extraction or every download yields no text
ProcessNoText ==
    /\ spc = "loop" /\ unprocessed # <<>>
    /\ LET id == Head(unprocessed)
       IN  /\ EmailKind(id) # "none"
           /\ fetched' = [fetched EXCEPT ![id] = @ + 1]
           /\ processed_file' = MarkProcessed(processed_file, id)
           /\ completed' = completed \cup {id}
    /\ unprocessed' = Tail(unprocessed)
    /\ UNCHANGED <<spc, runs, mailbox, vault>>
    /\ UNCHANGED <<recVars, parseVars, noteVars>>

\* lines 291-337: the text is recovered, parsed, and its notes written; a
\* note whose write raises is skipped
ProcessNotes ==
    /\ spc = "loop" /\ unprocessed # <<>>
    /\ LET id == Head(unprocessed)
           ns == ParseNotes(IF EmailKind(id) = "link"
                            THEN EmailText(id) \o <<"\n">>
                            ELSE EmailText(id), Subject)
       IN  /\ EmailKind(id) # "none"
           /\ \E failing \in SUBSET (1..Len(ns)) :
                /\ files' = WriteNotes(files, ns, 1, failing)
                /\ vault' = [vault EXCEPT ![id] = @ + Len(ns) - Cardinality(failing)]
           /\ fetched' = [fetched EXCEPT ![id] = @ + 1]
           /\ processed_file' = MarkProcessed(processed_file, id)
           /\ completed' = completed \cup {id}
    /\ unprocessed' = Tail(unprocessed)
    /\ UNCHANGED <<spc, runs, mailbox, written>>
    /\ UNCHANGED <<recVars, parseVars>>

\* lines 291-337, 353-356: the notes are written but mark_email_processed
\* raises at line 337 (the file cannot be opened); process_email does not
\* return, run reports the error and goes on, the id is not written
MarkFails ==
    /\ spc = "loop" /\ unprocessed # <<>>
    /\ LET id == Head(unprocessed)
           ns == ParseNotes(IF EmailKind(id) = "link"
                            THEN EmailText(id) \o <<"\n">>
                            ELSE EmailText(id), Subject)
       IN  /\ EmailKind(id) # "none"
           /\ \E failing \in SUBSET (1..Len(ns)) :
                /\ files' = WriteNotes(files, ns, 1, failing)
                /\ vault' = [vault EXCEPT ![id] = @ + Len(ns) - Cardinality(failing)]
           /\ fetched' = [fetched EXCEPT ![id] = @ + 1]
    /\ unprocessed' = Tail(unprocessed)
    /\ UNCHANGED <<spc, runs, mailbox, processed_file, completed, written>>
    /\ UNCHANGED <<recVars, parseVars>>

\* lines 346-348 and 358: run ends
EndRun ==
    /\ spc = "loop" /\ unprocessed = <<>>
    /\ spc' = "idle"
    /\ UNCHANGED <<runs, mailbox, processed_file, unprocessed, fetched, vault, completed>>
    /\ UNCHANGED <<recVars, parseVars, noteVars>>

SyncNext ==
    \/ MailArrives
    \/ StartRun
    \/ FetchFails
    \/ ProcessNothing
    \/ ProcessNoText
    \/ ProcessNotes
    \/ MarkFails
    \/ EndRun

SpecSync == SyncInit /\ [][SyncNext]_vars


----------------------------------------------------------------------------
(* Properties of extract_text_from_pdf (SpecRecover)                       *)

\* C1: when the trimmed direct text has at least 100 characters it is
\* returned and recognition is never invoked; otherwise recognition is invoked
\* and the longer of the direct text and the recognition text is returned; in
\* every case the returned text is at least as long as each text produced.
C1_ReturnsLongestCandidate ==
    rpc = "done" =>
        /\ Len(Strip(direct)) >= 100 => Returned = direct /\ ~ocrCalled
        /\ Len(Strip(direct)) < 100 =>
             /\ ocrCalled
             /\ Returned \in {direct, ocr_text}
        /\ Len(Returned) >= Len(direct)
        /\ Len(Returned) >= Len(ocr_text)

\* C2: the operation always returns; a failure of the structural extraction
\* is followed by an attempt at recognition, and the returned string is empty
\* only if no strategy produced any text.
C2_EmptyOnlyIfNothingProduced ==
    rpc = "done" =>
        /\ directFailed => ocrCalled
        /\ Returned = <<>> => direct = <<>> /\ ocr_text = <<>>

----------------------------------------------------------------------------
(* Properties of parse_highlights_and_notes (SpecParse)                    *)

\* the indices at which a maximal run of at least `least` line breaks starts
BreakRuns(s, least) ==
    {i \in 1..Len(s) :
        /\ s[i] = "\n"
        /\ i = 1 \/ s[i - 1] # "\n"
        /\ RunEnd(s, i, "newline") - i + 1 >= least}

\* index i lies in a run of two or more line breaks
InBreak(s, i) ==
    /\ s[i] = "\n"
    /\ \/ i > 1 /\ s[i - 1] = "\n"
       \/ i < Len(s) /\ s[i + 1] = "\n"

\* p occurs in s
Contains(s, p) == \E a \in 1..(Len(s) + 1) : PrefixAt(s, a, p)

\* the chunk the record n was made of, trimmed
ChunkOf(n) == Strip(chunks[n.index])

\* C3 as stated: the text is split only where two or more consecutive blank
\* lines (three or more line breaks) occur, so pieces one blank line apart
\* stay in one chunk.
C3_SplitsOnTwoBlankLines ==
    ppc # "start" => Len(chunks) = 1 + Cardinality(BreakRuns(stripped, 3))

\* C3 amended: the text is split at every run of two or more consecutive line
\* breaks, that is at one or more empty lines; pieces a single line break
\* apart stay in one chunk, and the chunks are the text between the runs.
C3_SplitsOnBlankLines ==
    ppc # "start" =>
        /\ Len(chunks) = 1 + Cardinality(BreakRuns(stripped, 2))
        /\ \A k \in 1..Len(chunks) :
             /\ ~Contains(chunks[k], <<"\n", "\n">>)
             /\ Contains(stripped, chunks[k])
        /\ Len(Concat(chunks))
             = Cardinality({i \in 1..Len(stripped) : ~InBreak(stripped, i)})

\* C3 witness: two lines exactly one blank line apart went to two records.
C3_OneBlankLineSplits ==
    /\ ppc = "done"
    /\ Len(notes) = 2
    /\ \E i \in BreakRuns(stripped, 2) : RunEnd(stripped, i, "newline") = i + 1
    /\ BreakRuns(stripped, 3) = {}

\* C4: the records are, in order, the split chunks whose trimmed length is
\* greater than 10, and the index of a record is the 1-based position of its
\* chunk among all the chunks, so the indices increase and may skip values.
C4_RecordsAreLongChunks ==
    ppc = "done" =>
        LET long == {k \in 1..Len(chunks) : Len(Strip(chunks[k])) > 10}
        IN  /\ Len(notes) = Cardinality(long)
            /\ {notes[j].index : j \in 1..Len(notes)} = long
            /\ \A j \in 1..(Len(notes) - 1) : notes[j].index < notes[j + 1].index
            /\ \A j \in 1..Len(notes) :
                 notes[j].content = CleanBody(TitleDirective(ChunkOf(notes[j])).content)

\* C4 witness: a chunk of 10 characters was dropped, one of 11 kept, and the
\* index of the kept one counts the dropped one.
C4_IndexSkipsDropped ==
    /\ ppc = "done"
    /\ Len(chunks) = 3
    /\ Len(Strip(chunks[1])) = 11
    /\ Len(Strip(chunks[2])) = 10
    /\ Len(notes) = 2
    /\ notes[2].index = 3

\* the cleaned body C5 describes, for lines none of which is blank: a line
\* not ending in punctuation is followed by one space, any other (but the
\* last) by its line break
ReflowedLine(lines, k) ==
    LET line == Strip(lines[k])
    IN  IF k = Len(lines) THEN line
        ELSE IF IsPunct(line[Len(line)]) THEN Append(line, "\n")
        ELSE Append(line, " ")

\* C5: in the body, a line that is not the last and does not end in one of
\* . ! ? : ; , is joined to the next by one space, and a line ending in one of
\* them keeps its line break: two lines are never joined without a separator.
C5_PunctuatedLinesKeepBreak ==
    ppc = "done" =>
        \A j \in 1..Len(notes) :
            LET lines == SplitLines(TitleDirective(ChunkOf(notes[j])).content)
            IN  (\A k \in 1..Len(lines) : Strip(lines[k]) # <<>>) =>
                    notes[j].content
                      = Concat([k \in 1..Len(lines) |-> ReflowedLine(lines, k)])

\* a line that is '#' and a word, with optional whitespace around
IsTagLine(l) ==
    LET t == Strip(l)
    IN  /\ Len(t) >= 2
        /\ t[1] = "#"
        /\ \A k \in 2..Len(t) : IsWord(t[k])

\* C6: when a kept chunk starts with a tag line, the record has a folder, and
\* the tag line is neither the record's title nor in its body.
C6_TagLineSetsFolder ==
    ppc = "done" =>
        \A j \in 1..Len(notes) :
            LET tag == SplitLines(ChunkOf(notes[j]))[1]
            IN  IsTagLine(tag) =>
                    /\ "folder" \in DOMAIN notes[j]
                    /\ notes[j].title # tag
                    /\ ~Contains(notes[j].content, Strip(tag))

\* the first line is 'Title:' followed by nothing or by whitespace only
IsEmptyTitleLine(l) ==
    /\ PrefixAtNoCase(l, 1, TitlePrefix)
    /\ Strip(SubSeq(l, Len(TitlePrefix) + 1, Len(l))) = <<>>

\* C7: when the first line of a chunk is 'Title:' followed by nothing or only
\* whitespace, no line of the chunk is taken as the title value: the title is
\* the default one, of the first line, and every following line stays in the
\* body.
C7_EmptyTitleIsNoDirective ==
    ppc = "done" =>
        \A j \in 1..Len(notes) :
            LET lines == SplitLines(ChunkOf(notes[j]))
            IN  IsEmptyTitleLine(lines[1]) =>
                    /\ notes[j].title = DefaultTitle(ChunkOf(notes[j]))
                    /\ \A k \in 2..Len(lines) :
                         Contains(notes[j].content, Strip(lines[k]))

\* a line that is 'Page <integer>' and nothing else
IsPageLine(l) ==
    /\ PrefixAt(l, 1, PagePrefix)
    /\ Len(l) > Len(PagePrefix)
    /\ \A k \in (Len(PagePrefix) + 1)..Len(l) : IsDigit(l[k])

NotPageLine(l) == ~IsPageLine(l)

\* C10: page stripping removes exactly the lines that are 'Page <integer>'
\* and are followed by a line break; every other line is unchanged, the blank
\* lines after a removed line included.
C10_OnlyPageLinesRemoved ==
    ppc # "start" =>
        LET lines == SplitLines(text)
        IN  SplitLines(stripped)
              = SelectSeq(SubSeq(lines, 1, Len(lines) - 1), NotPageLine)
                  \o <<lines[Len(lines)]>>

----------------------------------------------------------------------------
(* Property of create_obsidian_note (SpecNote)                             *)

\* the name of title_clean `base` with suffix k
Numbered(base, k) == base \o <<" ">> \o Str(k) \o Ext

\* C8: every call that returns writes a file name that did not exist before
\* the call, title_clean or title_clean followed by ' k' for the smallest
\* k >= 1 whose name is free; it adds exactly that file and leaves every
\* existing file as it was.
C8_NeverOverwrites ==
    [][ (written' # written \/ files' # files) /\ written'.ok =>
          LET base == TitleClean(written')
              name == written'.path
          IN  /\ name \notin DOMAIN files
              /\ DOMAIN files' = DOMAIN files \cup {name}
              /\ \A f \in DOMAIN files : files'[f] = files[f]
              /\ \/ name = base \o Ext
                 \/ \E k \in 1..(Cardinality(DOMAIN files) + 1) :
                      /\ name = Numbered(base, k)
                      /\ (base \o Ext) \in DOMAIN files
                      /\ \A j \in 1..(k - 1) : Numbered(base, j) \in DOMAIN files
      ]_vars

\* C8 witness: 'Hello' was written as 'Hello 2.md' beside the files that were
\* there, which still hold what they held.
C8_SecondSuffixTaken ==
    /\ written.ok
    /\ written.path = Numbered(<<"H","e","l","l","o">>, 2)
    /\ (<<"H","e","l","l","o">> \o Ext) \in DOMAIN files
    /\ files[<<"H","e","l","l","o">> \o Ext] = <<"o","l","d">>
    /\ Numbered(<<"H","e","l","l","o">>, 1) \in DOMAIN files

----------------------------------------------------------------------------
(* Property of run and process_email (SpecSync)                            *)

\* C9: once process_email has returned for an email its id is in the
\* processed set, and from then on the email is never fetched again, no note
\* is written for it, and no run lists it.
C9_ProcessedOnce ==
    [][ /\ completed' \subseteq GetProcessed(processed_file')
        /\ \A id \in completed :
             /\ fetched'[id] = fetched[id]
             /\ vault'[id] = vault[id]
             /\ spc = "idle" /\ spc' = "loop" => id \notin Range(unprocessed')
      ]_vars

\* C9 witness: a later run is under way, and it left out an email whose notes
\* an earlier run wrote.
C9_LaterRunSkips ==
    /\ runs >= 2
    /\ spc = "loop"
    /\ unprocessed # <<>>
    /\ \E id \in completed \cap mailbox :
         /\ vault[id] >= 1
         /\ fetched[id] = 1
         /\ id \notin Range(unprocessed)

============================================================================
